---- MODULE Spec2Model ----
(***************************************************************************)
(* Model of the gesture whiteboard component App (client/src/App.tsx) and *)
(* its geometry / drawing helpers.  One "instance" is one mount of the    *)
(* component: its refs, its React state isDrawing and the closure of the  *)
(* hand tracking effect (landmarker, animationFrameId, wasPinching).      *)
(*                                                                         *)
(* Landmark coordinates are normalised numbers in [0,1]; they are kept in *)
(* hundredths (0..100), distances in ten-thousandths.                     *)
(***************************************************************************)
EXTENDS Integers, Sequences, FiniteSets, TLC

\* ---------------------------------------------------------------- bounds
MaxMounts == 2      \* mounts of the component in one behaviour
MaxFrames == 3      \* frames handed to the detector by one mounted instance

Insts == 1..MaxMounts

\* ------------------------------------------------------------- constants
Unit == 100                     \* the landmark coordinate 1.0, in hundredths
PINCH_THRESHOLD == 500          \* 0.05, in ten-thousandths
THUMB_TIP == 4
INDEX_TIP == 8

\* ------------------------------------------------------ detector results
Pt(x, y, z) == [x |-> x, y |-> y, z |-> z]

\* A hand is its landmark list; only the entries the component reads
\* (hand[4], hand[8]) are carried.
MkHand(t, i) == (THUMB_TIP :> t) @@ (INDEX_TIP :> i)

HandNear      == MkHand(Pt(50, 50, 0),   Pt(52, 50, 0))    \* distance 0.02
HandEdge      == MkHand(Pt(50, 50, 0),   Pt(53, 54, 0))    \* distance 0.05 exactly
HandJustIn    == MkHand(Pt(50, 50, 0),   Pt(54, 52, 0))    \* distance ~0.0447
HandFar       == MkHand(Pt(10, 10, 0),   Pt(90, 90, 0))    \* distance ~1.13
HandDeep      == MkHand(Pt(0, 2, 0),     Pt(0, 0, 90))     \* near in x,y, far in z
HandRight     == MkHand(Pt(100, 90, 50), Pt(100, 100, 50)) \* index at x = 1.0

Hands == {HandNear, HandEdge, HandJustIn, HandFar, HandDeep, HandRight}

\* results.landmarks of one detectForVideo call: no hand, one hand, two hands
Frames == {<< >>} \cup {<<h>> : h \in Hands}
                  \cup {<<HandNear, HandFar>>, <<HandFar, HandNear>>}

\* ------------------------------------------------------------------ state
VARIABLES
    phase,            \* per instance: "unmounted", "mounted", "tornDown"
    refs,             \* per instance: videoRef/fabricCanvasRef/overlayCanvasRef .current set
    mediaDevices,     \* navigator.mediaDevices.getUserMedia exists
    camera,           \* per instance: getUserMedia promise
    srcObject,        \* per instance: video.srcObject bound to a stream
    currentTime,      \* per instance: video.currentTime (0, or 1 for "> 0")
    innerWidth,       \* window.innerWidth
    innerHeight,      \* window.innerHeight
    canvasSize,       \* per instance: size the fabric canvas was created with
    upperCanvas,      \* instances whose fabric .upper-canvas element is in the document
    load,             \* per instance: import + createHandLandmarker promise
    landmarker,       \* per instance: closure variable landmarker (TRUE = set)
    animationFrameId, \* per instance: closure variable (0 = undefined, 1 = latest request)
    rafPending,       \* per instance: number of pending animation-frame requests
    wasPinching,      \* per instance: closure variable wasPinching
    isDrawing,        \* per instance: React state isDrawing
    overlay,          \* per instance: hands painted on the overlay canvas
    hist,             \* per mounted instance: one record per detector call (kind, events)
    last,             \* per mounted instance: inputs and effects of the latest detector call
    ticked,           \* per instance: predictWebcam has run
    lateTick,         \* per instance: predictWebcam has run after teardown
    shadow            \* per instance: the same loop run on the frames cut to their first hand

vars == <<phase, refs, mediaDevices, camera, srcObject, currentTime, innerWidth,
          innerHeight, canvasSize, upperCanvas, load, landmarker, animationFrameId,
          rafPending, wasPinching, isDrawing, overlay, hist, last, ticked, lateTick,
          shadow>>

\* ------------------------------------------------------- pure functions
DistScale == Unit * Unit        \* ten-thousandths squared per hundredth squared

RECURSIVE SqrtBetween(_, _, _)
SqrtBetween(n, lo, hi) ==
    IF hi - lo <= 1 THEN lo
    ELSE LET mid == (lo + hi) \div 2
         IN  IF mid * mid <= n THEN SqrtBetween(n, mid, hi)
                               ELSE SqrtBetween(n, lo, mid)

\* Math.sqrt on a non-negative number, rounded down to the model's resolution;
\* the root is searched below 2 * DistScale, above any distance in the unit square
Sqrt(n) == SqrtBetween(n, 0, 2 * DistScale)

\* Math.pow(d, 2)
Pow2(d) == d * d

\* calculateDistance(p1, p2): p in hundredths, result in ten-thousandths
calculateDistance(p1, p2) ==
    Sqrt(DistScale * (Pow2(p2.x - p1.x) + Pow2(p2.y - p1.y)))

\* mutant: the threshold itself counts as a pinch
IsPinching_Inclusive(distance) == distance <= PINCH_THRESHOLD

\* const isPinching = distance < PINCH_THRESHOLD
IsPinching(distance) == distance < PINCH_THRESHOLD

\* mutant: x is not mirrored
MapX_Unmirrored(indexTip, width) == (indexTip.x * width) \div Unit

\* const x = (1 - indexTip.x) * window.innerWidth
MapX(indexTip, width) == ((Unit - indexTip.x) * width) \div Unit

\* const y = indexTip.y * window.innerHeight
MapY(indexTip, height) == (indexTip.y * height) \div Unit

\* ------------------------------------------------------------- helpers
Set(f, i, v) == [f EXCEPT ![i] = v]

InitialSize == <<1000, 800>>
WindowSizes == {InitialSize, <<500, 400>>}

NoLast == [valid |-> FALSE, frame |-> << >>,
           was |-> FALSE, drawing |-> FALSE, distance |-> 0, isPinching |-> FALSE,
           ev |-> << >>, wasAfter |-> FALSE, drawingAfter |-> FALSE]

\* ---------------------------------------------------------- the overlay
\* mutant: the rectangle cleared is empty, the canvas keeps its content
ClearRect_Nothing(canvas) == canvas

\* ctx.clearRect(0, 0, width, height)
ClearRect(canvas) == << >>

\* drawLandmarks(ctx, landmarks): clears, then paints every hand of the list
drawLandmarks(canvas, landmarks) == ClearRect(canvas) \o landmarks

\* ------------------------------------------------------ event dispatch
\* mutant: the selector matches no element, nothing is dispatched
triggerEvent_TargetMissing(i, eventName, x, y) == << >>

\* triggerEvent(eventName, x, y): the events dispatched on .upper-canvas
triggerEvent(i, eventName, x, y) ==
    IF ~refs[i] THEN << >>
    ELSE IF upperCanvas = {} THEN << >>
    ELSE << [type |-> eventName, x |-> x, y |-> y] >>

\* mutant: a pointer-down on every pinching frame, whatever the previous state
EmitEvents_DownEveryPinch(i, isPinching, was, x, y) ==
    IF isPinching
    THEN triggerEvent(i, "mousedown", x, y)
    ELSE (IF was THEN triggerEvent(i, "mouseup", x, y) ELSE << >>)
         \o triggerEvent(i, "mousemove", x, y)

\* mutant: the hover move sits in an else branch of if (wasPinching)
EmitEvents_NoMoveOnRelease(i, isPinching, was, x, y) ==
    IF isPinching
    THEN IF ~was THEN triggerEvent(i, "mousedown", x, y)
                 ELSE triggerEvent(i, "mousemove", x, y)
    ELSE IF was THEN triggerEvent(i, "mouseup", x, y)
                ELSE triggerEvent(i, "mousemove", x, y)

\* mutant: the pointer-up is not guarded by if (wasPinching)
EmitEvents_UpWithoutPinch(i, isPinching, was, x, y) ==
    IF isPinching
    THEN IF ~was THEN triggerEvent(i, "mousedown", x, y)
                 ELSE triggerEvent(i, "mousemove", x, y)
    ELSE triggerEvent(i, "mouseup", x, y) \o triggerEvent(i, "mousemove", x, y)

\* the if (isPinching) ... else ... tree of the gesture logic
EmitEvents(i, isPinching, was, x, y) ==
    IF isPinching
    THEN IF ~was THEN triggerEvent(i, "mousedown", x, y)
                 ELSE triggerEvent(i, "mousemove", x, y)
    ELSE (IF was THEN triggerEvent(i, "mouseup", x, y) ELSE << >>)
         \o triggerEvent(i, "mousemove", x, y)

\* mutant: setIsDrawing(false) is missing
NextDrawing_NeverCleared(isPinching, was, drawing) ==
    IF isPinching /\ ~was THEN TRUE ELSE drawing

\* setIsDrawing(true) / setIsDrawing(false) in the same tree
NextDrawing(isPinching, was, drawing) ==
    IF isPinching /\ ~was THEN TRUE
    ELSE IF ~isPinching /\ was THEN FALSE
    ELSE drawing

\* mutant: a frame without a hand resets the pinch state
NextWasPinching_ResetOnNoHand(found, isPinching, was) ==
    IF found THEN isPinching ELSE FALSE

\* mutant: the pinch state is never stored
NextWasPinching_Stale(found, isPinching, was) == was

\* wasPinching = isPinching, inside if (results.landmarks && length > 0)
NextWasPinching(found, isPinching, was) ==
    IF found THEN isPinching ELSE was

\* mutant: the video is not consulted
DetectorRuns_NoVideoCheck(i, lm) == lm

\* mutant: currentTime > 0 is not required
DetectorRuns_NoTimeCheck(i, lm) == lm /\ refs[i]

\* if (landmarker && videoRef.current && videoRef.current.currentTime > 0)
DetectorRuns(i, lm) == lm /\ refs[i] /\ currentTime[i] > 0

\* if (results.landmarks && results.landmarks.length > 0)
HandDetected(landmarks) == Len(landmarks) > 0

\* mutant: the hand used is the last one detected
FirstHand_Last(landmarks) == landmarks[Len(landmarks)]

\* const hand = results.landmarks[0]
FirstHand(landmarks) == landmarks[1]

FrameKind(landmarks) ==
    IF ~HandDetected(landmarks) THEN "X"
    ELSE IF IsPinching(calculateDistance(FirstHand(landmarks)[THUMB_TIP],
                                         FirstHand(landmarks)[INDEX_TIP]))
         THEN "P" ELSE "N"

EventTypes(ev) == [k \in 1..Len(ev) |-> ev[k].type]

\* The gesture logic of one tick on the landmarks f, from pinch state was:
\* the distance, the classification, the events dispatched and the next state.
Translate(i, runs, f, was, drawing) ==
    LET found    == runs /\ HandDetected(f)
        hand     == FirstHand(f)
        thumbTip == hand[THUMB_TIP]
        indexTip == hand[INDEX_TIP]
        distance == calculateDistance([x |-> thumbTip.x, y |-> thumbTip.y],
                                      [x |-> indexTip.x, y |-> indexTip.y])
        pinch    == IsPinching(distance)
        x        == MapX(indexTip, innerWidth)
        y        == MapY(indexTip, innerHeight)
    IN  [distance |-> IF found THEN distance ELSE 0,
         pinch    |-> found /\ pinch,
         ev       |-> IF found THEN EmitEvents(i, pinch, was, x, y) ELSE << >>,
         wasNext  |-> NextWasPinching(found, found /\ pinch, was),
         drawNext |-> IF found THEN NextDrawing(pinch, was, drawing) ELSE drawing]

\* the landmarks with every hand but the first removed
FirstOnly(f) == IF Len(f) <= 1 THEN f ELSE SubSeq(f, 1, 1)

NoShadow == [was |-> FALSE, ev |-> << >>, hist |-> << >>]

\* mutant: the next tick is requested inside the if that guards the detector
Reschedule_OnlyWhenDetecting(runs, pending) == IF runs THEN pending + 1 ELSE pending

\* animationFrameId = requestAnimationFrame(predictWebcam): one more request
Reschedule(runs, pending) == pending + 1

\* One run of predictWebcam in instance i; lm is the closure's landmarker,
\* f the landmarks the detector returns if it is called, pending the number
\* of animation-frame requests outstanding while the body runs.
predictWebcam(i, lm, f, pending) ==
    LET runs == DetectorRuns(i, lm)
        t    == Translate(i, runs, f, wasPinching[i], isDrawing[i])
        sh   == Translate(i, runs, FirstOnly(f), shadow[i].was, isDrawing[i])
    IN  /\ runs => Len(hist[i]) < MaxFrames
        /\ overlay' = IF runs /\ refs[i]
                      THEN Set(overlay, i, drawLandmarks(ClearRect(overlay[i]), f))
                      ELSE overlay
        /\ wasPinching' = Set(wasPinching, i, t.wasNext)
        /\ isDrawing' = Set(isDrawing, i, t.drawNext)
        /\ hist' = IF runs
                   THEN Set(hist, i, Append(hist[i],
                            [kind |-> FrameKind(f), ev |-> EventTypes(t.ev)]))
                   ELSE hist
        /\ last' = IF runs
                   THEN Set(last, i,
                            [valid |-> TRUE, frame |-> f,
                             was |-> wasPinching[i], drawing |-> isDrawing[i],
                             distance |-> t.distance,
                             isPinching |-> t.pinch,
                             ev |-> t.ev, wasAfter |-> t.wasNext,
                             drawingAfter |-> t.drawNext])
                   ELSE last
        /\ shadow' = IF runs
                     THEN Set(shadow, i,
                              [was |-> sh.wasNext, ev |-> sh.ev,
                               hist |-> Append(shadow[i].hist, EventTypes(sh.ev))])
                     ELSE shadow
        \* animationFrameId = requestAnimationFrame(predictWebcam)
        /\ animationFrameId' = IF Reschedule(runs, pending) > pending
                               THEN Set(animationFrameId, i, 1)
                               ELSE animationFrameId
        /\ rafPending' = Set(rafPending, i, Reschedule(runs, pending))
        /\ ticked' = Set(ticked, i, TRUE)
        /\ lateTick' = Set(lateTick, i, lateTick[i] \/ phase[i] = "tornDown")

\* the landmarks a detector call may return; none is drawn when it is not called
Results(i, lm) == IF DetectorRuns(i, lm) THEN Frames ELSE {<< >>}

\* ---------------------------------------------------------------- Init
Init ==
    /\ phase = [i \in Insts |-> IF i = 1 THEN "mounted" ELSE "unmounted"]
    /\ refs = [i \in Insts |-> i = 1]
    /\ mediaDevices \in BOOLEAN
    /\ camera = [i \in Insts |-> IF i # 1 THEN "none"
                                 ELSE IF mediaDevices THEN "pending" ELSE "unavailable"]
    /\ srcObject = [i \in Insts |-> FALSE]
    /\ currentTime = [i \in Insts |-> 0]
    /\ innerWidth = InitialSize[1]
    /\ innerHeight = InitialSize[2]
    /\ canvasSize = [i \in Insts |-> IF i = 1 THEN InitialSize ELSE <<0, 0>>]
    /\ upperCanvas = {1}
    /\ load = [i \in Insts |-> IF i = 1 THEN "pending" ELSE "none"]
    /\ landmarker = [i \in Insts |-> FALSE]
    /\ animationFrameId = [i \in Insts |-> 0]
    /\ rafPending = [i \in Insts |-> 0]
    /\ wasPinching = [i \in Insts |-> FALSE]
    /\ isDrawing = [i \in Insts |-> FALSE]
    /\ overlay = [i \in Insts |-> << >>]
    /\ hist = [i \in Insts |-> << >>]
    /\ last = [i \in Insts |-> NoLast]
    /\ ticked = [i \in Insts |-> FALSE]
    /\ lateTick = [i \in Insts |-> FALSE]
    /\ shadow = [i \in Insts |-> NoShadow]

\* -------------------------------------------------------------- actions
\* getUserMedia resolves: if (videoRef.current) videoRef.current.srcObject = stream.
\* Once the instance is torn down its video ref is cleared and neither handler of
\* the promise changes anything: the promise is followed only while mounted.
CameraGranted(i) ==
    /\ phase[i] = "mounted"
    /\ camera[i] = "pending"
    /\ camera' = Set(camera, i, "granted")
    /\ srcObject' = IF refs[i] THEN Set(srcObject, i, TRUE) ELSE srcObject
    /\ UNCHANGED <<phase, refs, mediaDevices, currentTime, innerWidth, innerHeight,
                   canvasSize, upperCanvas, load, landmarker, animationFrameId,
                   rafPending, wasPinching, isDrawing, overlay, hist, last, ticked,
                   lateTick, shadow>>

\* getUserMedia rejects: .catch(err => console.error(...))
CameraDenied(i) ==
    /\ phase[i] = "mounted"
    /\ camera[i] = "pending"
    /\ camera' = Set(camera, i, "denied")
    /\ UNCHANGED <<phase, refs, mediaDevices, srcObject, currentTime, innerWidth,
                   innerHeight, canvasSize, upperCanvas, load, landmarker,
                   animationFrameId, rafPending, wasPinching, isDrawing, overlay, hist,
                   last, ticked, lateTick,
                   shadow>>

\* <video autoPlay>: a bound stream starts delivering frames
VideoPlays(i) ==
    /\ phase[i] = "mounted"
    /\ srcObject[i]
    /\ currentTime[i] = 0
    /\ currentTime' = Set(currentTime, i, 1)
    /\ UNCHANGED <<phase, refs, mediaDevices, camera, srcObject, innerWidth, innerHeight,
                   canvasSize, upperCanvas, load, landmarker, animationFrameId,
                   rafPending, wasPinching, isDrawing, overlay, hist, last, ticked,
                   lateTick, shadow>>

\* createHandLandmarker().then(lm => { landmarker = lm; predictWebcam(); })
LoadResolved(i) ==
    /\ load[i] = "pending"
    /\ load' = Set(load, i, "resolved")
    /\ landmarker' = Set(landmarker, i, TRUE)
    /\ \E f \in Results(i, TRUE) : predictWebcam(i, TRUE, f, rafPending[i])
    /\ UNCHANGED <<phase, refs, mediaDevices, camera, srcObject, currentTime,
                   innerWidth, innerHeight, canvasSize, upperCanvas>>

\* the import or createHandLandmarker rejects: no handler, the loop never starts
LoadRejected(i) ==
    /\ load[i] = "pending"
    /\ load' = Set(load, i, "rejected")
    /\ UNCHANGED <<phase, refs, mediaDevices, camera, srcObject, currentTime,
                   innerWidth, innerHeight, canvasSize, upperCanvas, landmarker,
                   animationFrameId, rafPending, wasPinching, isDrawing, overlay, hist,
                   last, ticked, lateTick,
                   shadow>>

\* the browser runs a pending animation-frame callback, which uses the request up
AnimationFrame(i) ==
    /\ rafPending[i] > 0
    /\ \E f \in Results(i, landmarker[i]) :
          predictWebcam(i, landmarker[i], f, rafPending[i] - 1)
    /\ UNCHANGED <<phase, refs, mediaDevices, camera, srcObject, currentTime,
                   innerWidth, innerHeight, canvasSize, upperCanvas, load, landmarker>>

\* cancelAnimationFrame(id): cancels the request id names, if there is one
CancelAnimationFrame(id, pending) ==
    IF id = 0 \/ pending = 0 THEN pending ELSE pending - 1

\* unmount: the refs are cleared and the elements (video, canvases) leave the
\* document, then the effects' cleanups run
\* (canvas.dispose(); cancelAnimationFrame(animationFrameId)).
\* The closure of the tracking effect (landmarker, animationFrameId, wasPinching)
\* and the pending model load live on.  The records hist and last follow the
\* detector calls of a mounted instance and are closed here: DetectorRuns needs
\* the video ref, which stays cleared.
Teardown(i) ==
    /\ phase[i] = "mounted"
    /\ phase' = Set(phase, i, "tornDown")
    /\ refs' = Set(refs, i, FALSE)
    /\ camera' = Set(camera, i, "none")
    /\ srcObject' = Set(srcObject, i, FALSE)
    /\ currentTime' = Set(currentTime, i, 0)
    /\ overlay' = Set(overlay, i, << >>)
    /\ canvasSize' = Set(canvasSize, i, <<0, 0>>)
    /\ upperCanvas' = upperCanvas \ {i}
    /\ rafPending' = Set(rafPending, i,
                         CancelAnimationFrame(animationFrameId[i], rafPending[i]))
    /\ hist' = Set(hist, i, << >>)
    /\ last' = Set(last, i, NoLast)
    /\ shadow' = Set(shadow, i, [NoShadow EXCEPT !.was = shadow[i].was])
    /\ UNCHANGED <<mediaDevices, innerWidth, innerHeight, load, landmarker,
                   animationFrameId, wasPinching, isDrawing, ticked, lateTick>>

\* a later mount of the component: the three effects run
Mount(i) ==
    /\ i > 1
    /\ phase[i] = "unmounted"
    /\ phase[i - 1] = "tornDown"
    /\ phase' = Set(phase, i, "mounted")
    /\ refs' = Set(refs, i, TRUE)
    /\ camera' = Set(camera, i, IF mediaDevices THEN "pending" ELSE "unavailable")
    /\ canvasSize' = Set(canvasSize, i, <<innerWidth, innerHeight>>)
    /\ upperCanvas' = upperCanvas \cup {i}
    /\ load' = Set(load, i, "pending")
    /\ UNCHANGED <<mediaDevices, srcObject, currentTime, innerWidth, innerHeight,
                   landmarker, animationFrameId, rafPending, wasPinching, isDrawing,
                   overlay, hist, last, ticked, lateTick,
                   shadow>>

\* the user resizes the window (the component registers no resize handler)
Resize ==
    /\ \E sz \in WindowSizes \ {<<innerWidth, innerHeight>>} :
          /\ innerWidth' = sz[1]
          /\ innerHeight' = sz[2]
    /\ UNCHANGED <<phase, refs, mediaDevices, camera, srcObject, currentTime, canvasSize,
                   upperCanvas, load, landmarker, animationFrameId, rafPending,
                   wasPinching, isDrawing, overlay, hist, last, ticked, lateTick,
                   shadow>>

Next ==
    \/ \E i \in Insts : CameraGranted(i)
    \/ \E i \in Insts : CameraDenied(i)
    \/ \E i \in Insts : VideoPlays(i)
    \/ \E i \in Insts : LoadResolved(i)
    \/ \E i \in Insts : LoadRejected(i)
    \/ \E i \in Insts : AnimationFrame(i)
    \/ \E i \in Insts : Teardown(i)
    \/ \E i \in Insts : Mount(i)
    \/ Resize

Spec == Init /\ [][Next]_vars

TypeOK ==
    /\ phase \in [Insts -> {"unmounted", "mounted", "tornDown"}]
    /\ refs \in [Insts -> BOOLEAN]
    /\ camera \in [Insts -> {"none", "pending", "granted", "denied", "unavailable"}]
    /\ load \in [Insts -> {"none", "pending", "resolved", "rejected"}]
    /\ currentTime \in [Insts -> 0..1]
    /\ animationFrameId \in [Insts -> 0..1]
    /\ rafPending \in [Insts -> 0..1]
    /\ upperCanvas \subseteq Insts
    /\ \A i \in Insts : Len(hist[i]) <= MaxFrames /\ overlay[i] \in Frames

\* ================================================================ claims
Kinds(h) == [k \in 1..Len(h) |-> h[k].kind]

Count(seq, t) == Cardinality({k \in 1..Len(seq) : seq[k] = t})

RECURSIVE Flatten(_)
Flatten(h) == IF h = << >> THEN << >> ELSE Head(h).ev \o Flatten(Tail(h))

IsButton(t) == t \in {"mousedown", "mouseup"}

\* the pointer-down and pointer-up events a loop has emitted, in order
Buttons(i) == SelectSeq(Flatten(hist[i]), IsButton)

\* C1: with a hand on every frame, a maximal run a..b-1 of pinching frames that
\* frame b (not pinching) ends emits one pointer-down, on frame a, a pointer-move
\* on each of the frames a+1..b-1, and one pointer-up, on frame b.
C1_PinchRunBracketed ==
    \A i \in Insts :
      LET h == hist[i] IN
      \A a \in 1..Len(h) : \A b \in 1..Len(h) :
        ( /\ a < b
          /\ \A k \in 1..b : h[k].kind # "X"
          /\ \A k \in a..(b - 1) : h[k].kind = "P"
          /\ (a = 1 \/ h[a - 1].kind # "P")
          /\ h[b].kind = "N" )
        => /\ h[a].ev = <<"mousedown">>
           /\ \A k \in (a + 1)..(b - 1) : h[k].ev = <<"mousemove">>
           /\ Count(h[b].ev, "mouseup") = 1
           /\ Count(h[b].ev, "mousedown") = 0
           /\ Head(h[b].ev) = "mouseup"

C1_Witness ==
    \E i \in Insts : Kinds(hist[i]) = <<"P", "P", "N">>

\* C2: in one loop the pointer-downs and pointer-ups alternate, starting with a
\* down, whatever the frames (pinching, not pinching, no hand).
C2_DownUpAlternate ==
    \A i \in Insts :
      \A k \in 1..Len(Buttons(i)) :
        Buttons(i)[k] = IF k % 2 = 1 THEN "mousedown" ELSE "mouseup"

C2_Witness ==
    \E i \in Insts :
      /\ Buttons(i) = <<"mousedown", "mouseup", "mousedown">>
      /\ Len(hist[i]) = 3

\* the single event the claim's table selects for (isPinching, wasPinching)
SelectedEvent(isPinching, was) ==
    IF isPinching THEN (IF was THEN "mousemove" ELSE "mousedown")
                  ELSE (IF was THEN "mouseup" ELSE "mousemove")

\* C3 as claimed: a frame with a hand emits exactly the one selected event.
C3_Original ==
    \A i \in Insts :
      (last[i].valid /\ HandDetected(last[i].frame))
      => EventTypes(last[i].ev) = <<SelectedEvent(last[i].isPinching, last[i].was)>>

\* C3, amended: a frame with a hand emits exactly the selected event, except
\* that the release frame (not pinching, was pinching) emits the pointer-up
\* followed by a pointer-move.
C3_EventsPerFrame ==
    \A i \in Insts :
      (last[i].valid /\ HandDetected(last[i].frame))
      => EventTypes(last[i].ev) =
           IF ~last[i].isPinching /\ last[i].was
           THEN <<"mouseup", "mousemove">>
           ELSE <<SelectedEvent(last[i].isPinching, last[i].was)>>

C3_Witness ==
    \E i \in Insts :
      /\ last[i].valid /\ HandDetected(last[i].frame)
      /\ ~last[i].isPinching /\ last[i].was
      /\ EventTypes(last[i].ev) = <<"mouseup", "mousemove">>

\* C4 as claimed: after teardown no tick of predictWebcam runs and no
\* animation-frame request is pending.
C4_StoppedAfterTeardown ==
    \A i \in Insts :
      phase[i] = "tornDown" => (rafPending[i] = 0 /\ ~lateTick[i])

\* C5: a frame without a hand emits no event and leaves wasPinching and
\* isDrawing as they were.
C5_NoHandNoEffect ==
    \A i \in Insts :
      (last[i].valid /\ ~HandDetected(last[i].frame))
      => /\ last[i].ev = << >>
         /\ hist[i][Len(hist[i])].ev = << >>
         /\ wasPinching[i] = last[i].was
         /\ isDrawing[i] = last[i].drawing

C5_Witness ==
    \E i \in Insts :
      /\ last[i].valid /\ ~HandDetected(last[i].frame)
      /\ last[i].was /\ wasPinching[i] /\ isDrawing[i]

\* detection is lost after the pinching frame a: frames a+1..b-1 have no hand
LostAfterPinch(h, a, b) ==
    /\ a + 1 < b
    /\ h[a].kind = "P"
    /\ \A k \in (a + 1)..(b - 1) : h[k].kind = "X"

\* while detection is lost after a pinching frame, nothing is emitted and the
\* pinch state and the drawing indicator stay true
C6_Stranded(i) ==
    LET h == hist[i] IN
    \A a \in 1..Len(h) :
      (h[a].kind = "P" /\ \A k \in (a + 1)..Len(h) : h[k].kind = "X")
      => /\ \A k \in (a + 1)..Len(h) : h[k].ev = << >>
         /\ wasPinching[i]
         /\ isDrawing[i]

\* C6 as claimed: detection lost while pinching emits no pointer-up and keeps
\* the drawing state; the next frame with a hand emits the one event for
\* wasPinching = true: a pointer-move if pinching, a pointer-up if not.
C6_Original ==
    \A i \in Insts :
      LET h == hist[i] IN
      /\ C6_Stranded(i)
      /\ \A a \in 1..Len(h) : \A b \in 1..Len(h) :
           LostAfterPinch(h, a, b)
           => /\ h[b].kind = "P" => h[b].ev = <<"mousemove">>
              /\ h[b].kind = "N" => h[b].ev = <<"mouseup">>

\* C6, amended: as claimed, except that the frame that finds the hand again,
\* not pinching, emits the pointer-up followed by a pointer-move.
C6_LostDetectionKeepsPinch ==
    \A i \in Insts :
      LET h == hist[i] IN
      /\ C6_Stranded(i)
      /\ \A a \in 1..Len(h) : \A b \in 1..Len(h) :
           LostAfterPinch(h, a, b)
           => /\ h[b].kind = "P" => h[b].ev = <<"mousemove">>
              /\ h[b].kind = "N" => h[b].ev = <<"mouseup", "mousemove">>

C6_Witness ==
    \E i \in Insts :
      /\ Kinds(hist[i]) = <<"P", "X", "N">>
      /\ hist[i][3].ev = <<"mouseup", "mousemove">>
      /\ ~wasPinching[i]

\* C7: a frame is pinching exactly when the distance of thumb tip and index
\* tip in x and y is below 0.05 (5 hundredths); at exactly 0.05 it is not, and
\* z plays no part.
C7_PinchIffPlanarBelowThreshold ==
    \A i \in Insts :
      (last[i].valid /\ HandDetected(last[i].frame))
      => LET t == last[i].frame[1][THUMB_TIP]
             n == last[i].frame[1][INDEX_TIP]
             d2 == (n.x - t.x) * (n.x - t.x) + (n.y - t.y) * (n.y - t.y)
         IN  /\ last[i].isPinching <=> d2 < 5 * 5
             /\ d2 = 5 * 5 => ~last[i].isPinching
             /\ last[i].wasAfter = last[i].isPinching

C7_Witness ==
    \E i \in Insts :
      /\ last[i].valid
      /\ last[i].frame = <<HandEdge>>
      /\ last[i].distance = PINCH_THRESHOLD
      /\ ~last[i].isPinching

\* C7, second witness of the same case: z apart, x and y near, pinching
C7_WitnessDepth ==
    \E i \in Insts :
      last[i].valid /\ last[i].frame = <<HandDeep>> /\ last[i].isPinching

\* C8: the events of a frame carry x = (1 - indexTip.x) * width and
\* y = indexTip.y * height for the frame's index tip and the window size at
\* that frame; x = 0 gives width, x = 1 gives 0, x = 0.5 gives width / 2, and
\* the near hand on 1000 by 800 from a non-pinching state gives a pointer-down
\* at (480, 400).
C8_Step(i) ==
    (Len(hist'[i]) > Len(hist[i]) /\ HandDetected(last'[i].frame))
    => LET n  == last'[i].frame[1][INDEX_TIP]
           ev == last'[i].ev
       IN  /\ Len(ev) > 0
           /\ \A k \in 1..Len(ev) :
                /\ ev[k].x * Unit = (Unit - n.x) * innerWidth
                /\ ev[k].y * Unit = n.y * innerHeight
                /\ n.x = 0 => ev[k].x = innerWidth
                /\ n.x = Unit => ev[k].x = 0
                /\ 2 * n.x = Unit => 2 * ev[k].x = innerWidth
           /\ ( /\ last'[i].frame = <<HandNear>>
                /\ ~wasPinching[i]
                /\ <<innerWidth, innerHeight>> = <<1000, 800>> )
              => ev = << [type |-> "mousedown", x |-> 480, y |-> 400] >>

C8_EventCoordinates == [][\A i \in Insts : C8_Step(i)]_vars

C8_Witness ==
    \E i \in Insts :
      /\ last[i].valid
      /\ last[i].frame = <<HandNear>>
      /\ last[i].ev = << [type |-> "mousedown", x |-> 480, y |-> 400] >>

\* C9: with camera access denied or unavailable the loop never calls the
\* detector, no event is dispatched, and wasPinching and isDrawing stay false.
C9_DegradedWithoutCamera ==
    \A i \in Insts :
      camera[i] \in {"denied", "unavailable"}
      => /\ hist[i] = << >>
         /\ ~last[i].valid
         /\ ~srcObject[i]
         /\ ~wasPinching[i]
         /\ ~isDrawing[i]

C9_Witness ==
    \E i \in Insts :
      /\ camera[i] = "denied"
      /\ load[i] = "resolved"
      /\ rafPending[i] > 0
      /\ phase[i] = "mounted"

\* C10: the detector is called only with the landmarker loaded and the video
\* delivering frames, and no tick runs before the model load has resolved.
C10_DetectorNeedsBothSetups ==
    \A i \in Insts :
      /\ Len(hist[i]) > 0
         => /\ landmarker[i]
            /\ load[i] = "resolved"
            /\ camera[i] = "granted"
            /\ srcObject[i]
            /\ currentTime[i] > 0
      /\ (ticked[i] \/ rafPending[i] > 0) => (load[i] = "resolved" /\ landmarker[i])

C10_Witness ==
    \E i \in Insts :
      /\ Len(hist[i]) = 1
      /\ currentTime[i] > 0
      /\ landmarker[i]

\* C11: once the loop of a mounted instance has started, exactly one next tick
\* is requested at every moment between ticks, whether the detector ran or not
\* and whether a hand was found or not.
C11_AlwaysOneTickPending ==
    \A i \in Insts :
      (ticked[i] /\ phase[i] = "mounted")
      => /\ rafPending[i] = 1
         /\ animationFrameId[i] # 0

\* the three kinds of tick have all happened with the request still in place
C11_Witness ==
    \E i \in Insts :
      /\ phase[i] = "mounted"
      /\ ticked[i]
      /\ Len(hist[i]) = 2
      /\ hist[i][1].kind # "X"
      /\ hist[i][2].kind = "X"
      /\ rafPending[i] = 1

\* a loop that ticks without ever calling the detector keeps its request too
C11_WitnessIdle ==
    \E i \in Insts :
      /\ phase[i] = "mounted" /\ ticked[i] /\ currentTime[i] = 0
      /\ rafPending[i] = 1

\* C12: while no frame of a mounted instance has been classified as pinching,
\* every event emitted is a pointer-move and the drawing state is not entered;
\* the far hand (thumb (0.10,0.10), index (0.90,0.90), distance ~1.13) is such
\* a frame.
C12_HoverOnly ==
    \A i \in Insts :
      /\ (phase[i] = "mounted" /\ \A k \in 1..Len(hist[i]) : hist[i][k].kind # "P")
         => /\ \A k \in 1..Len(Flatten(hist[i])) : Flatten(hist[i])[k] = "mousemove"
            /\ \A k \in 1..Len(hist[i]) :
                 hist[i][k].kind = "N" => hist[i][k].ev = <<"mousemove">>
            /\ ~isDrawing[i]
            /\ ~wasPinching[i]
      /\ (last[i].valid /\ last[i].frame = <<HandFar>>)
         => /\ ~last[i].isPinching
            /\ last[i].distance >= 11300 /\ last[i].distance < 11400

C12_Witness ==
    \E i \in Insts :
      /\ phase[i] = "mounted"
      /\ Kinds(hist[i]) = <<"N", "X", "N">>
      /\ last[i].frame = <<HandFar>>
      /\ Flatten(hist[i]) = <<"mousemove", "mousemove">>

\* C13: hands after the first do not count.  The shadow loop is handed every
\* frame with the additional hands removed; it has emitted the same events,
\* frame by frame, and holds the same pinch state as the loop itself.
C13_OnlyFirstHandCounts ==
    \A i \in Insts :
      /\ shadow[i].was = wasPinching[i]
      /\ shadow[i].hist = [k \in 1..Len(hist[i]) |-> hist[i][k].ev]
      /\ shadow[i].ev = last[i].ev

\* a frame whose second hand pinches while its first does not, after a pinch
C13_Witness ==
    \E i \in Insts :
      /\ last[i].valid
      /\ last[i].frame = <<HandFar, HandNear>>
      /\ last[i].was
      /\ EventTypes(shadow[i].ev) = <<"mouseup", "mousemove">>
      /\ ~shadow[i].was

\* every event of the tick lies inside the fabric canvas of instance i
C14_Inside(i) ==
    (Len(hist'[i]) > Len(hist[i]) /\ HandDetected(last'[i].frame))
    => \A k \in 1..Len(last'[i].ev) :
         /\ 0 <= last'[i].ev[k].x /\ last'[i].ev[k].x <= canvasSize[i][1]
         /\ 0 <= last'[i].ev[k].y /\ last'[i].ev[k].y <= canvasSize[i][2]

\* the width and height of the mapping are those the fabric canvas was made with
C14_CanvasDimensionsUsed(i) ==
    (Len(hist'[i]) > Len(hist[i]) /\ HandDetected(last'[i].frame))
    => LET n == last'[i].frame[1][INDEX_TIP] IN
       \A k \in 1..Len(last'[i].ev) :
         /\ last'[i].ev[k].x * Unit = (Unit - n.x) * canvasSize[i][1]
         /\ last'[i].ev[k].y * Unit = n.y * canvasSize[i][2]

\* C14 as claimed: in every frame, after any window resizes, the fingertip is
\* mapped with the drawing canvas's pixel dimensions and every dispatched event
\* lies inside the drawing canvas.
C14_EventsInsideCanvas ==
    [][\A i \in Insts : C14_CanvasDimensionsUsed(i) /\ C14_Inside(i)]_vars

\* the second half of C14 alone
C14_InsideOnly == [][\A i \in Insts : C14_Inside(i)]_vars

\* the last pointer-down of the loop has no pointer-up after it
DownOpen(i) ==
    /\ Len(Buttons(i)) > 0
    /\ Buttons(i)[Len(Buttons(i))] = "mousedown"

\* C15: isDrawing equals wasPinching, and in a mounted instance both are true
\* exactly when a pointer-down has been emitted with no pointer-up after it.
C15_DrawingIsPinchState ==
    \A i \in Insts :
      /\ isDrawing[i] = wasPinching[i]
      /\ phase[i] = "mounted" => (wasPinching[i] <=> DownOpen(i))
      /\ last[i].valid => /\ last[i].drawingAfter = last[i].wasAfter
                          /\ isDrawing[i] = last[i].drawingAfter

C15_Witness ==
    \E i \in Insts :
      /\ Kinds(hist[i]) = <<"P", "N", "P">>
      /\ Buttons(i) = <<"mousedown", "mouseup", "mousedown">>
      /\ isDrawing[i] /\ wasPinching[i]

\* the other side of the same case: released, both false
C15_WitnessReleased ==
    \E i \in Insts :
      /\ Kinds(hist[i]) = <<"P", "X", "N">>
      /\ ~isDrawing[i] /\ ~wasPinching[i]

\* C16: after a tick in which the detector ran the overlay holds exactly the
\* hands of that frame, none from an earlier frame; after a frame without a
\* hand it is empty.
C16_OverlayIsLastFrame ==
    \A i \in Insts :
      last[i].valid
      => /\ overlay[i] = last[i].frame
         /\ ~HandDetected(last[i].frame) => overlay[i] = << >>

\* the overlay is empty again after a frame with hands
C16_Witness ==
    \E i \in Insts :
      /\ Len(hist[i]) = 2
      /\ hist[i][1].kind # "X"
      /\ last[i].valid /\ last[i].frame = << >>
      /\ overlay[i] = << >>

\* both hands of a two-hand frame are on the overlay
C16_WitnessTwoHands ==
    \E i \in Insts :
      /\ Len(hist[i]) = 2
      /\ overlay[i] = <<HandNear, HandFar>>

\* a frame loop is running: a tick of its predictWebcam is requested
LoopRunning(i) == rafPending[i] > 0

\* C17 as claimed: over mounts, teardowns and remounts, with the model loads
\* resolving in any order, at most one frame loop is running at any time.
C17_AtMostOneLoop ==
    Cardinality({i \in Insts : LoopRunning(i)}) <= 1

\* frame j delivered a pointer-down and no pointer-up was delivered in j+1..k-1
DownDeliveredBefore(h, k) ==
    \E j \in 1..(k - 1) :
      /\ h[j].ev = <<"mousedown">>
      /\ \A m \in (j + 1)..(k - 1) : Count(h[m].ev, "mouseup") = 0

\* C18: the pinch state goes from false to true only in a tick whose
\* pointer-down was dispatched on the upper canvas, and every pointer-move of a
\* stroke and every pointer-up the canvas receives follows a delivered
\* pointer-down of the same stroke.
C18_StateAdvancesWithDelivery ==
    \A i \in Insts :
      LET h == hist[i] IN
      /\ (last[i].valid /\ ~last[i].was /\ last[i].wasAfter)
         => /\ EventTypes(last[i].ev) = <<"mousedown">>
            /\ upperCanvas # {}
      /\ \A k \in 1..Len(h) :
           /\ (h[k].kind = "P" /\ h[k].ev # <<"mousedown">>)
              => (h[k].ev = <<"mousemove">> /\ DownDeliveredBefore(h, k))
           /\ Count(h[k].ev, "mouseup") > 0 => DownDeliveredBefore(h, k)

C18_Witness ==
    \E i \in Insts :
      /\ last[i].valid /\ ~last[i].was /\ last[i].wasAfter
      /\ wasPinching[i]
      /\ EventTypes(last[i].ev) = <<"mousedown">>
      /\ i \in upperCanvas
      /\ Len(hist[i]) = 3

====
